---- MODULE Spec2Model ----
(***************************************************************************)
(* State-machine model of CollectionService                                *)
(* (libs/ngx-collection/src/lib/collection.service.ts).                    *)
(*                                                                         *)
(* The service is single-threaded: a call of an operation runs its         *)
(* synchronous prefix (the busy flag / tracking entry is set), the request *)
(* is then awaited, and the arrival of its first value, its failure or its *)
(* cancellation runs the rest of the pipe in one synchronous step.  Every  *)
(* action below is one such synchronous step.                              *)
(*                                                                         *)
(* In every pipe finalize() is placed before first(): the value is pushed  *)
(* through the whole pipe (commit, callbacks, event) and only then does    *)
(* first() complete and tear the source down, which runs the finalize      *)
(* callback.  On an error the error handler runs first and the teardown    *)
(* after it.  The finalize callback is therefore the last thing a step     *)
(* does.                                                                   *)
(***************************************************************************)
EXTENDS Integers, Sequences, FiniteSets, Bags, TLC

\* ---------------------------------------------------------------- bounds
MaxId    == 2   \* entity identities 1..MaxId
MaxItems == 2   \* longest items sequence the requests are allowed to build
MaxCalls == 2   \* operations in flight at the same time
MaxBatch == 2   \* longest fetched batch / list of requests
MaxTotal == 1   \* largest totalCount a payload reports

\* ---------------------------------------------------------------- values
\* `undefined` for totalCountFetched (an optional number) and for an absent
\* totalCount of a structured payload.
Undefined == -1

\* An entity is a record with its comparator field `id` and a payload `v`.
\* v = 0 is a partial entity (identifying fields only), as passed to
\* update / delete / refresh.  Two payloads tell a replaced element from a
\* kept one.
Ids      == 1..MaxId
Versions == {1, 2}
Entities == [id : Ids, v : Versions]
Partials == [id : Ids, v : {0}]

\* `undefined` / `null` where an entity is expected; also what an array looks
\* like to the comparator (it has no `id`).
Nothing == [id |-> 0, v |-> 0]

\* Comparator.equal with comparatorFields = ['id'].
equal(a, b) == a.id = b.id

\* ---------------------------------------------------------------- pure helpers
\* has(item, items): some element is Comparator-equal to item.
has(item, arr) == \E i \in 1..Len(arr) : equal(item, arr[i])

\* getItemByPartial(partItem, items): the first equal element, or undefined.
getItemByPartial(p, arr) ==
    IF \E i \in 1..Len(arr) : equal(arr[i], p)
    THEN arr[CHOOSE i \in 1..Len(arr) :
                 /\ equal(arr[i], p)
                 /\ \A j \in 1..(i - 1) : ~equal(arr[j], p)]
    ELSE Nothing

\* Defective variant of hasItemIn: only arr.includes(item), the comparator is
\* not asked.
hasItemInSame(item, arr) ==
    \E i \in 1..Len(arr) : arr[i] = item

\* hasItemIn(item, arr): arr.includes(item) || findIndex(equal) > -1.
hasItemIn(item, arr) ==
    \E i \in 1..Len(arr) : arr[i] = item \/ equal(arr[i], item)

\* The result of upsertOne: either the new sequence or 'duplicate'.
Accepted(arr) == [dup |-> FALSE, items |-> arr, duplicate |-> Nothing]
Rejected(e)   == [dup |-> TRUE, items |-> <<>>, duplicate |-> e]

\* Defective variant of upsertOne: the item is pushed without looking for a
\* match.
upsertOneAppending(item, arr) == Accepted(Append(arr, item))

\* Defective variant of upsertOne: the loop stops at the first match, which
\* is replaced whether or not there is a second one.
upsertOneTolerant(item, arr) ==
    LET m == {i \in 1..Len(arr) : equal(item, arr[i])}
    IN  IF m = {} THEN Accepted(Append(arr, item))
        ELSE Accepted([arr EXCEPT
                         ![CHOOSE i \in m : \A j \in m : i <= j] = item])

\* upsertOne(item, items): the loop finds the first matching index and stops
\* at the second one.
upsertOne(item, arr) ==
    LET m          == {i \in 1..Len(arr) : equal(item, arr[i])}
        firstIndex == IF m = {} THEN -1
                      ELSE CHOOSE i \in m : \A j \in m : i <= j
        duplicateIndex ==
            IF Cardinality(m) < 2 THEN -1
            ELSE CHOOSE i \in m \ {firstIndex} :
                     \A j \in m \ {firstIndex} : i <= j
    IN  IF firstIndex < 0 THEN Accepted(Append(arr, item))
        ELSE IF duplicateIndex < 0
             THEN Accepted([arr EXCEPT ![firstIndex] = item])
             ELSE Rejected(item)

\* hasDuplicates(items): the later element of the first equal pair (i, j),
\* i scanned before j; null when there is none.
hasDuplicates(arr) ==
    LET pairs == {p \in (1..Len(arr)) \X (1..Len(arr)) :
                    p[1] < p[2] /\ equal(arr[p[1]], arr[p[2]])}
    IN  IF Len(arr) < 2 \/ pairs = {} THEN Nothing
        ELSE arr[(CHOOSE p \in pairs :
                     \A q \in pairs :
                        p[1] < q[1] \/ (p[1] = q[1] /\ p[2] <= q[2]))[2]]

\* upsertMany(items, toItems): reject a batch with an internal duplicate,
\* else fold upsertOne over the batch, stopping at the first rejection.
RECURSIVE upsertFold(_, _, _)
upsertFold(batch, i, to) ==
    IF i > Len(batch) THEN Accepted(to)
    ELSE LET r == upsertOne(batch[i], to)
         IN  IF r.dup THEN Rejected(batch[i])
             ELSE upsertFold(batch, i + 1, r.items)

\* Defective variant of upsertMany: the batch is not tested for an internal
\* duplicate before the fold.
upsertManyUnchecked(batch, to) == upsertFold(batch, 1, to)

upsertMany(batch, to) ==
    IF hasDuplicates(batch) # Nothing
    THEN Rejected(hasDuplicates(batch))
    ELSE upsertFold(batch, 1, to)

\* items.filter(i => !equal(i, item)) and items.filter(i => !has(i, list)).
RECURSIVE filterOut(_, _)
filterOut(arr, gone) ==
    IF arr = <<>> THEN <<>>
    ELSE IF has(Head(arr), gone)
         THEN filterOut(Tail(arr), gone)
         ELSE <<Head(arr)>> \o filterOut(Tail(arr), gone)

\* ---------------------------------------------------------------- payloads
\* A fetched batch: null, a bare array, or {items, totalCount?}.
FetchedNull        == [form |-> "null", items |-> <<>>, totalCount |-> Undefined]
FetchedArray(arr)  == [form |-> "array", items |-> arr, totalCount |-> Undefined]
FetchedObject(arr, tc) == [form |-> "object", items |-> arr, totalCount |-> tc]

Batches(n) == UNION {[1..k -> Entities] : k \in 0..n}

FetchedUpTo(n) ==
    {FetchedNull}
      \cup {FetchedArray(b) : b \in Batches(n)}
      \cup {FetchedObject(b, tc) : b \in Batches(n),
                                   tc \in {Undefined} \cup 0..MaxTotal}

\* A delete response, seen through the field a string decrementTotalCount
\* names: the field's value when it is a non-negative integer, RespNoField
\* when the response is no object or lacks the field, RespBadField when the
\* field holds a negative or fractional number.
RespNoField  == -1
RespBadField == -2
Responses    == {RespBadField, RespNoField} \cup 0..MaxTotal

\* decrementTotalCount: absent, a boolean (n = 1 for true), a number (n, or
\* n + 1/2 when ~whole), or a field name.
DecrAbsent     == [t |-> "absent", n |-> 0, whole |-> TRUE]
DecrBoolean(b) == [t |-> "boolean", n |-> IF b THEN 1 ELSE 0, whole |-> TRUE]
DecrNumber(n, w) == [t |-> "number", n |-> n, whole |-> w]
DecrString     == [t |-> "string", n |-> 0, whole |-> TRUE]

\* What a callback receives: the committed item(s), the delete response,
\* onDuplicateErrCallbackParam ({status: 409} unless configured), the value
\* the request failed with (EmptyError when it completed empty), or the
\* Error raised for throwOnDuplicates.
ParamItems     == "items"
ParamResponse  == "response"
ParamDuplicate == "duplicate"
ParamThrown    == "thrown"
Errors         == {"error", "EmptyError"}

OnSuccess(p) == [cb |-> "onSuccess", param |-> p]
OnError(p)   == [cb |-> "onError", param |-> p]

Channels == {"created", "read", "updated", "deleted"}

\* ---------------------------------------------------------------- state
VARIABLES
    items,              \* CollectionState.items
    totalCountFetched,  \* CollectionState.totalCountFetched
    isCreating,         \* CollectionState.isCreating
    isReading,          \* CollectionState.isReading
    updatingItems,      \* CollectionState.updatingItems
    deletingItems,      \* CollectionState.deletingItems
    refreshingItems,    \* CollectionState.refreshingItems
    cfg,                \* throwOnDuplicates / allowFetchedDuplicates
    observed,           \* channels whose Subject has an observer
    calls,              \* bag of the calls whose request is awaited
    last,               \* what the latest step did (callbacks, events)
    status              \* CollectionState.status (Map<UniqueStatus, T>)

vars == <<items, totalCountFetched, isCreating, isReading, updatingItems,
          deletingItems, refreshingItems, cfg, observed, calls, last,
          status>>

\* A call in flight: the operation, its params, and for a list of n requests
\* joined by forkJoin the number of them that have completed.  (forkJoin
\* keeps the values to itself until the last request completes, so the
\* values are drawn when it emits.)
\*   via : the operation that started this one inside its own pipe
\*         (update -> refresh, delete -> read), "none" for a direct call
\* Three fields are history kept for the properties, not state of the
\* service:
\*   size0      : the length of the call's tracking set just before the call
\*   alone      : no other call of the same kind has started or finished
\*                since this call was made
\*   overlapped : another operation has committed since this call was made
\*   heard      : the first value a request under forkJoin has emitted
\*                while it has not completed yet
\*   raises     : what throws while the call is handled: nothing, the
\*                caller's onSuccess/onError ("callback"), or these and the
\*                configured errReporter as well ("both")
NoCall ==
    [op |-> "none", via |-> "none", item |-> Nothing, its |-> <<>>,
     form |-> "one", n |-> 0, done |-> 0,
     refreshRequest |-> FALSE, readRequest |-> FALSE,
     keepExistingOnError |-> FALSE, decrementTotalCount |-> DecrAbsent,
     size0 |-> 0, alone |-> TRUE, overlapped |-> FALSE, heard |-> <<>>,
     raises |-> "none"]

InFlight == BagToSet(calls)

\* What the last step did; `done`, `size0`, `alone` and `overlapped` are
\* those of the call the step ended.
NoStep == [op |-> "none", via |-> "none", outcome |-> "none",
           cbs |-> <<>>, evs |-> <<>>, done |-> 0, size0 |-> 0,
           alone |-> TRUE, overlapped |-> FALSE,
           decrementTotalCount |-> DecrAbsent, reported |-> FALSE]

Step(c, outcome, cbs, evs) ==
    [op |-> c.op, via |-> c.via, outcome |-> outcome, cbs |-> cbs,
     evs |-> evs, done |-> c.done, size0 |-> c.size0, alone |-> c.alone,
     overlapped |-> c.overlapped,
     decrementTotalCount |-> c.decrementTotalCount,
     reported |-> cbs # <<>> /\ c.raises # "none"]

\* setOptions(): throwOnDuplicates and allowFetchedDuplicates (default true).
Options == [throwOnDuplicates : BOOLEAN, allowFetchedDuplicates : BOOLEAN]

\* The keys of CollectionState.status; a key bound to Nothing is absent
\* from the Map.
StatusKeys == {"focused", "expanded"}

\* constructor(options): the initial CollectionState, the options applied.
\* `obs` are the channels whose listenFor...() Observable the owner of the
\* service has subscribed to, which it does before the first call or never.
Constructed(o, obs) ==
    /\ items = <<>>
    /\ totalCountFetched = Undefined
    /\ isCreating = FALSE
    /\ isReading = FALSE
    /\ updatingItems = <<>>
    /\ deletingItems = <<>>
    /\ refreshingItems = <<>>
    /\ cfg = o
    /\ observed = obs
    /\ status = [key \in StatusKeys |-> Nothing]
    /\ calls = EmptyBag
    /\ last = NoStep

Init == \E o \in Options, obs \in {{}, Channels} : Constructed(o, obs)

\* ---------------------------------------------------------------- tracking
\* The flags and tracking sets as one record, so that a step that starts one
\* operation and finalizes another composes the two patches in code order.
Tracking ==
    [isCreating |-> isCreating, isReading |-> isReading,
     updatingItems |-> updatingItems, deletingItems |-> deletingItems,
     refreshingItems |-> refreshingItems]

SetTracking(t) ==
    /\ isCreating' = t.isCreating
    /\ isReading' = t.isReading
    /\ updatingItems' = t.updatingItems
    /\ deletingItems' = t.deletingItems
    /\ refreshingItems' = t.refreshingItems

\* item.map(i => getItemByPartial(i, s.items) ?? i)
resolve(p, arr) ==
    IF getItemByPartial(p, arr) = Nothing THEN p ELSE getItemByPartial(p, arr)

\* addTo{Updating,Deleting,Refreshing}Items share one body.  For an array
\* argument hasItemIn() is asked whether the array itself is in the set.
addToTracked(c, tracked, arr) ==
    IF c.item # Nothing
    THEN IF hasItemIn(c.item, tracked) THEN tracked
         ELSE tracked \o <<resolve(c.item, arr)>>
    ELSE IF hasItemIn(Nothing, tracked) THEN tracked
         ELSE tracked \o [i \in 1..Len(c.its) |-> resolve(c.its[i], arr)]

\* Defective variant of removeFromTracked: the Array.isArray branch is
\* missing, an array argument is compared as if it were one entity and
\* removes nothing.
removeFromTrackedOne(c, tracked) ==
    IF c.item # Nothing THEN filterOut(tracked, <<c.item>>)
    ELSE tracked

\* removeFrom{Updating,Deleting,Refreshing}Items share one body.
removeFromTracked(c, tracked) ==
    IF c.item # Nothing THEN filterOut(tracked, <<c.item>>)
    ELSE filterOut(tracked, c.its)

addToUpdatingItems(c, t) ==
    [t EXCEPT !.updatingItems = addToTracked(c, t.updatingItems, items)]
removeFromUpdatingItems(c, t) ==
    [t EXCEPT !.updatingItems = removeFromTracked(c, t.updatingItems)]
addToDeletingItems(c, t) ==
    [t EXCEPT !.deletingItems = addToTracked(c, t.deletingItems, items)]
removeFromDeletingItems(c, t) ==
    [t EXCEPT !.deletingItems = removeFromTracked(c, t.deletingItems)]
addToRefreshingItems(c, t) ==
    [t EXCEPT !.refreshingItems = addToTracked(c, t.refreshingItems, items)]
removeFromRefreshingItems(c, t) ==
    [t EXCEPT !.refreshingItems = removeFromTracked(c, t.refreshingItems)]

CreateOps  == {"create", "createMany"}
ReadOps    == {"read", "readOne", "readMany"}
UpdateOps  == {"update", "updateMany"}
DeleteOps  == {"delete", "deleteMany"}
RefreshOps == {"refresh", "refreshMany"}

\* The kind of an operation: the flag or tracking set it keeps.
kind(op) ==
    IF op \in CreateOps THEN "creating"
    ELSE IF op \in ReadOps THEN "reading"
    ELSE IF op \in UpdateOps THEN "updating"
    ELSE IF op \in DeleteOps THEN "deleting"
    ELSE "refreshing"

\* The tracking set of an operation (none for create and read operations).
trackedBy(op, t) ==
    IF op \in UpdateOps THEN t.updatingItems
    ELSE IF op \in DeleteOps THEN t.deletingItems
    ELSE IF op \in RefreshOps THEN t.refreshingItems
    ELSE <<>>

\* The synchronous first statement of every operation.
enterBusy(c, t) ==
    IF c.op \in CreateOps THEN [t EXCEPT !.isCreating = TRUE]
    ELSE IF c.op \in ReadOps THEN [t EXCEPT !.isReading = TRUE]
    ELSE IF c.op \in UpdateOps THEN addToUpdatingItems(c, t)
    ELSE IF c.op \in DeleteOps THEN addToDeletingItems(c, t)
    ELSE addToRefreshingItems(c, t)

\* The finalize() callback of every operation.
finalize(c, t) ==
    IF c.op \in CreateOps THEN [t EXCEPT !.isCreating = FALSE]
    ELSE IF c.op \in ReadOps THEN [t EXCEPT !.isReading = FALSE]
    ELSE IF c.op \in UpdateOps THEN removeFromUpdatingItems(c, t)
    ELSE IF c.op \in DeleteOps THEN removeFromDeletingItems(c, t)
    ELSE removeFromRefreshingItems(c, t)

\* ---------------------------------------------------------------- handlers
\* What a handler leaves: the committed items and total, how it ended, the
\* callbacks it invoked and the events it broadcast, in order.
Out(arr, total, outcome, cbs, evs) ==
    [items |-> arr, total |-> total, outcome |-> outcome,
     cbs |-> cbs, evs |-> evs]

\* A handler that commits nothing.
Keep(outcome, cbs) == Out(items, totalCountFetched, outcome, cbs, <<>>)

\* Defective variant of Emit: next() is called without looking at
\* `observed`.
EmitUnobserved(ch, payload) == <<ch>>

\* if (this.onX.observed) this.onX.next(payload)
Emit(ch, payload) ==
    IF ch \in observed THEN <<ch>> ELSE <<>>

\* Defective variant of errorHandler: every operation resets the collection
\* as read does.
errorHandlerResetting(c, e, outcome) ==
    Out(<<>>, Undefined, outcome, <<OnError(e)>>, <<>>)

\* The error handler of every operation: read resets the collection unless
\* keepExistingOnError, every handler calls onError with the failure.
errorHandler(c, e, outcome) ==
    IF c.op = "read" /\ ~c.keepExistingOnError
    THEN Out(<<>>, Undefined, outcome, <<OnError(e)>>, <<>>)
    ELSE Keep(outcome, <<OnError(e)>>)

\* Defective variant of errorNext: the reset of read's error handler in the
\* error handler of every operation.
errorNextResetting(c, e) ==
    Out(<<>>, Undefined, "failed", <<OnError(e)>>, <<>>)

errorNext(c, e) == errorHandler(c, e, "failed")

\* An exception leaves the next-handler given to tapResponse: nothing has
\* been committed and no callback has been called.
thrownInTap(c) == Keep("raised", <<>>)

\* tapResponse (an operator of @ngrx/component-store, which is no part of
\* this repository) always swallows an exception that leaves the
\* next-handler; whether it first hands it to the operation's error handler
\* depends on the installed version, so both are possible.
tapResponse(c, out) ==
    IF out.outcome = "raised"
    THEN {Keep("thrown", <<>>), errorHandler(c, ParamThrown, "thrown")}
    ELSE {out}

\* duplicateNotAdded(): whether an exception leaves it.  It throws under
\* throwOnDuplicates, and it calls errReporter outside any try block.
duplicateNotAdded(c) == cfg.throwOnDuplicates \/ c.raises = "both"

\* duplicateNotAdded() followed by callCb(onError, sentinel) inside a
\* tapResponse next-handler; an exception leaving duplicateNotAdded()
\* pre-empts the callback.
duplicateInTap(c) ==
    IF duplicateNotAdded(c) THEN thrownInTap(c)
    ELSE Keep("rejected", <<OnError(ParamDuplicate)>>)

\* The same inside map() under switchMap (update, updateMany): the throw
\* reaches the pipe's catchError, which calls onError with the Error.
duplicateInMap(c) ==
    IF duplicateNotAdded(c) THEN Keep("thrown", <<OnError(ParamThrown)>>)
    ELSE Keep("rejected", <<OnError(ParamDuplicate)>>)

\* callErrReporter(...args): whether an exception leaves it.  errReporter is
\* called inside try/catch; what it throws goes to the console only.
callErrReporter(c) == FALSE

\* Defective variant of callCb: the callback is called outside any try
\* block.
callCbUncaught(c) == c.raises # "none"

\* callCb(cb, param): whether an exception leaves it.  What the callback
\* throws is caught and handed to callErrReporter().
callCb(c) == IF c.raises = "none" THEN FALSE ELSE callErrReporter(c)

\* The handler from its first callCb() on: an exception leaving the
\* callback would cut the handler short of the broadcast that follows.
afterCallbacks(c, r) ==
    IF r.cbs # <<>> /\ callCb(c)
    THEN [r EXCEPT !.evs = <<>>, !.outcome = "thrown"]
    ELSE r

\* Defective variant of successParam: the caller's onSuccess is handed to
\* read() as it is and receives the items read.
successParamPassed(c, p) == p

\* The onSuccess a read receives from delete()/deleteMany() hands the delete
\* response to the caller's onSuccess.
successParam(c, p) == IF c.via \in {"delete", "deleteMany"}
                      THEN ParamResponse ELSE p

\* Defective variant of createNext: the patch holds the new item only,
\* the items read at arrival are not spread into it.
createNextAlone(c, item) ==
    IF item = Nothing THEN Keep("ignored", <<>>)
    ELSE IF ~hasItemIn(item, items)
         THEN Out(<<item>>, totalCountFetched, "committed",
                  <<OnSuccess(ParamItems)>>,
                  Emit("created", <<item>>))
         ELSE duplicateInTap(c)

\* Defective variant of createNext: the emitted value is not tested for
\* null, and looking into it raises a TypeError inside the next-handler.
createNextUnguarded(c, item) ==
    IF item = Nothing THEN thrownInTap(c)
    ELSE IF ~hasItemIn(item, items)
         THEN Out(items \o <<item>>, totalCountFetched, "committed",
                  <<OnSuccess(ParamItems)>>,
                  Emit("created", <<item>>))
         ELSE duplicateInTap(c)

\* create: success handler.
createNext(c, item) ==
    IF item = Nothing THEN Keep("ignored", <<>>)
    ELSE IF ~hasItemIn(item, items)
         THEN Out(items \o <<item>>, totalCountFetched, "committed",
                  <<OnSuccess(ParamItems)>>,
                  Emit("created", <<item>>))
         ELSE duplicateInTap(c)

\* createMany: success handler.
createManyNext(c, f) ==
    IF f.form = "null" THEN Keep("ignored", <<>>)
    ELSE IF Len(f.items) > 0
         THEN IF upsertMany(f.items, items).dup THEN duplicateInTap(c)
              ELSE Out(items \o f.items,
                       IF f.form = "array" THEN totalCountFetched
                       ELSE f.totalCount,
                       "committed",
                       <<OnSuccess(ParamItems)>>,
                       Emit("created", f.items))
         ELSE IF f.form = "object" /\ f.totalCount # Undefined
              THEN Out(items, f.totalCount, "count", <<>>, <<>>)
              ELSE Keep("ignored", <<>>)

\* Defective variant of readCommit: the fetched items are added to the
\* items held, as readMany does, instead of replacing them.
readCommitMerging(c, f) ==
    IF f.form = "null" THEN thrownInTap(c)
    ELSE Out(items \o f.items,
             IF f.form = "array" THEN Undefined ELSE f.totalCount,
             "committed",
             <<OnSuccess(successParam(c, ParamItems))>>,
             Emit("read", f.items))

\* read: success handler.  A null payload reads `fetched.totalCount` of null
\* while building the patch: a TypeError leaves the handler.
readCommit(c, f) ==
    IF f.form = "null" THEN thrownInTap(c)
    ELSE Out(f.items,
             IF f.form = "array" THEN Undefined ELSE f.totalCount,
             "committed",
             <<OnSuccess(successParam(c, ParamItems))>>,
             Emit("read", f.items))

readNext(c, f) ==
    IF Len(f.items) > 0 /\ hasDuplicates(f.items) # Nothing
    THEN IF duplicateNotAdded(c) THEN thrownInTap(c)
         ELSE IF ~cfg.allowFetchedDuplicates
              THEN Out(IF c.keepExistingOnError THEN items ELSE <<>>,
                       IF c.keepExistingOnError THEN totalCountFetched
                       ELSE Undefined,
                       "rejected", <<OnError(ParamDuplicate)>>, <<>>)
              ELSE readCommit(c, f)
    ELSE readCommit(c, f)

\* readOne, refresh: success handler (same body, both broadcast on onRead).
upsertOneNext(c, item) ==
    IF item = Nothing THEN Keep("ignored", <<>>)
    ELSE IF upsertOne(item, items).dup THEN duplicateInTap(c)
         ELSE Out(upsertOne(item, items).items, totalCountFetched,
                  "committed",
                  <<OnSuccess(ParamItems)>>,
                  Emit("read", <<item>>))

readOneNext(c, item) == upsertOneNext(c, item)
refreshNext(c, item) == upsertOneNext(c, item)

\* readMany: success handler.  A null payload takes the else branch and
\* reads `fetched.totalCount` of null: a TypeError leaves the handler.
readManyNext(c, f) ==
    IF Len(f.items) > 0
    THEN IF upsertMany(f.items, items).dup THEN duplicateInTap(c)
         ELSE Out(upsertMany(f.items, items).items,
                  IF f.form = "array" THEN totalCountFetched
                  ELSE f.totalCount,
                  "committed",
                  <<OnSuccess(ParamItems)>>,
                  Emit("read", f.items))
    ELSE IF f.form = "null" THEN thrownInTap(c)
         ELSE IF f.form = "object" /\ f.totalCount # Undefined
              THEN Out(items, f.totalCount, "count", <<>>, <<>>)
              ELSE Keep("ignored", <<>>)

\* refreshMany: success handler.
refreshManyNext(c, f) ==
    IF f.form = "null" THEN Keep("ignored", <<>>)
    ELSE IF Len(f.items) > 0
         THEN IF upsertMany(f.items, items).dup THEN duplicateInTap(c)
              ELSE Out(upsertMany(f.items, items).items,
                       IF f.form = "array" THEN totalCountFetched
                       ELSE f.totalCount,
                       "committed",
                       <<OnSuccess(ParamItems)>>,
                       Emit("read", f.items))
         ELSE IF f.form = "object" /\ f.totalCount # Undefined
              THEN Out(items, f.totalCount, "count", <<>>, <<>>)
              ELSE Keep("ignored", <<>>)

\* update without refreshRequest: the map() under switchMap.
updateNext(c, item) ==
    IF item = Nothing THEN Keep("ignored", <<>>)
    ELSE IF upsertOne(item, items).dup THEN duplicateInMap(c)
         ELSE Out(upsertOne(item, items).items, totalCountFetched,
                  "committed",
                  <<OnSuccess(ParamItems)>>,
                  Emit("updated", <<item>>))

\* updateMany without refreshRequest: the map() under switchMap.
updateManyNext(c, f) ==
    IF f.form = "null" THEN Keep("ignored", <<>>)
    ELSE IF upsertMany(f.items, items).dup THEN duplicateInMap(c)
         ELSE Out(upsertMany(f.items, items).items, totalCountFetched,
                  "committed",
                  <<OnSuccess(ParamItems)>>,
                  Emit("updated", f.items))

\* getDecrementedTotalCount(response, itemsCount, prevTotalCount,
\* decrementTotalCount): the new total, or null for "no change".
Null == -1

\* Defective variant of getDecrementedTotalCount: a number is not tested
\* for being whole.
getDecrementedTotalCountFractional(response, itemsCount, prevTotalCount, d) ==
    IF d.t = "absent" THEN Null
    ELSE IF d.t = "string"
         THEN IF Len(response) = 1 /\ response[1] >= 0
              THEN response[1] ELSE Null
         ELSE IF prevTotalCount # Undefined /\ prevTotalCount # 0
              THEN IF d.t = "number"
                   THEN IF d.n > 0 /\ prevTotalCount >= d.n
                        THEN prevTotalCount - d.n ELSE Null
                   ELSE IF prevTotalCount >= itemsCount
                        THEN prevTotalCount - itemsCount ELSE Null
              ELSE Null

getDecrementedTotalCount(response, itemsCount, prevTotalCount, d) ==
    IF d.t = "absent" THEN Null
    ELSE IF d.t = "string"
         THEN IF Len(response) = 1 /\ response[1] >= 0
              THEN response[1] ELSE Null
         ELSE IF prevTotalCount # Undefined /\ prevTotalCount # 0
              THEN IF d.t = "number"
                   THEN IF d.whole /\ d.n > 0 /\ prevTotalCount >= d.n
                        THEN prevTotalCount - d.n ELSE Null
                   ELSE IF prevTotalCount >= itemsCount
                        THEN prevTotalCount - itemsCount ELSE Null
              ELSE Null

\* Defective variant of deleteCommit: only the items equal to the first of
\* the given partial entities are filtered out.
deleteCommitFirst(c, response, gone, itemsCount) ==
    LET newTotalCount == getDecrementedTotalCount(
                             response, itemsCount, totalCountFetched,
                             c.decrementTotalCount)
    IN  Out(filterOut(items, <<gone[1]>>),
            IF newTotalCount = Null THEN totalCountFetched
            ELSE newTotalCount,
            "committed",
            <<OnSuccess(ParamResponse)>>,
            Emit("deleted", gone))

\* delete / deleteMany without readRequest: the map() under switchMap.
\* `gone` is [params.item] or params.items, `itemsCount` 1 or items.length.
deleteCommit(c, response, gone, itemsCount) ==
    LET newTotalCount == getDecrementedTotalCount(
                             response, itemsCount, totalCountFetched,
                             c.decrementTotalCount)
    IN  Out(filterOut(items, gone),
            IF newTotalCount = Null THEN totalCountFetched
            ELSE newTotalCount,
            "committed",
            <<OnSuccess(ParamResponse)>>,
            Emit("deleted", gone))

deleteNext(c, response) == deleteCommit(c, response, <<c.item>>, 1)
deleteManyNext(c, response) == deleteCommit(c, response, c.its, Len(c.its))

\* ---------------------------------------------------------------- calls
\* History: every call in flight notes that a call of one of `kinds` has
\* started or finished, and whether the step committed.
RECURSIVE noted(_, _, _)
noted(B, kinds, committed) ==
    IF B = EmptyBag THEN EmptyBag
    ELSE LET c == CHOOSE x \in BagToSet(B) : TRUE
         IN  SetToBag({[c EXCEPT
                          !.alone = @ /\ kind(c.op) \notin kinds,
                          !.overlapped = @ \/ committed]})
               (+) noted(B (-) SetToBag({c}), kinds, committed)

\* History: a call as it is made, with the length of its tracking set just
\* before.
called(c) ==
    [c EXCEPT !.size0 = Len(trackedBy(c.op, Tracking)),
              !.alone = TRUE, !.overlapped = FALSE]

\* The synchronous part of a call: the busy flag or tracking entry is set
\* and the request is awaited.
Start(c) ==
    /\ SetTracking(enterBusy(c, Tracking))
    /\ calls' = noted(calls, {kind(c.op)}, FALSE) (+) SetToBag({called(c)})
    /\ last' = NoStep
    /\ UNCHANGED <<items, totalCountFetched, cfg, observed, status>>

\* request: one Observable, or a list of n Observables joined by forkJoin.
RequestForms == {<<"one", 1>>} \cup {<<"list", n>> : n \in 1..MaxBatch}
\* for the operations given items: one request, or one request per item
FormsFor(ps) == {<<"one", 1>>, <<"list", Len(ps)>>}
PartialLists == UNION {[1..k -> Partials] : k \in 1..MaxBatch}

CreateCall == [NoCall EXCEPT !.op = "create"]
CreateManyCall(rf) ==
    [NoCall EXCEPT !.op = "createMany", !.form = rf[1], !.n = rf[2]]
ReadCall(keep) ==
    [NoCall EXCEPT !.op = "read", !.keepExistingOnError = keep]
ReadOneCall == [NoCall EXCEPT !.op = "readOne"]
ReadManyCall(rf) ==
    [NoCall EXCEPT !.op = "readMany", !.form = rf[1], !.n = rf[2]]
UpdateCall(p, rr) ==
    [NoCall EXCEPT !.op = "update", !.item = p, !.refreshRequest = rr]
UpdateManyCall(ps, rf, rr) ==
    [NoCall EXCEPT !.op = "updateMany", !.its = ps, !.form = rf[1],
                   !.n = rf[2], !.refreshRequest = rr]
DeleteCall(p, d, rd) ==
    [NoCall EXCEPT !.op = "delete", !.item = p, !.decrementTotalCount = d,
                   !.readRequest = rd]
DeleteManyCall(ps, rf, d, rd) ==
    [NoCall EXCEPT !.op = "deleteMany", !.its = ps, !.form = rf[1],
                   !.n = rf[2], !.decrementTotalCount = d, !.readRequest = rd]
RefreshCall(p) == [NoCall EXCEPT !.op = "refresh", !.item = p]
RefreshManyCall(ps, rf) ==
    [NoCall EXCEPT !.op = "refreshMany", !.its = ps, !.form = rf[1],
                   !.n = rf[2]]

Create == Start(CreateCall)
CreateMany(rf) == Start(CreateManyCall(rf))
Read(keep) == Start(ReadCall(keep))
ReadOne == Start(ReadOneCall)
ReadMany(rf) == Start(ReadManyCall(rf))
Update(p, rr) == Start(UpdateCall(p, rr))
UpdateMany(ps, rf, rr) == Start(UpdateManyCall(ps, rf, rr))
Delete(p, d, rd) == Start(DeleteCall(p, d, rd))
DeleteMany(ps, rf, d, rd) == Start(DeleteManyCall(ps, rf, d, rd))
Refresh(p) == Start(RefreshCall(p))
RefreshMany(ps, rf) == Start(RefreshManyCall(ps, rf))

\* ---------------------------------------------------------------- arrivals
\* The rest of the pipe once the first value has arrived: the handler's
\* commit, callbacks and event, then the finalize callback.
Arrive(c, out) ==
    \E h \in tapResponse(c, out) :
      LET r == afterCallbacks(c, h) IN
        /\ Len(r.items) <= MaxItems
        /\ items' = r.items
        /\ totalCountFetched' = r.total
        /\ SetTracking(finalize(c, Tracking))
        /\ calls' = noted(calls (-) SetToBag({c}), {kind(c.op)},
                          r.outcome = "committed")
        /\ last' = Step(c, r.outcome, r.cbs, r.evs)
        /\ UNCHANGED <<cfg, observed, status>>

\* Defective variant of Defer: the outer pipe calls onSuccess with the value
\* its own request emitted before it hands over to the inner operation,
\* which has been given the same callback.
DeferCalling(c, inner) ==
    /\ SetTracking(finalize(c, enterBusy(inner, Tracking)))
    /\ calls' = noted(calls (-) SetToBag({c}),
                      {kind(c.op), kind(inner.op)}, FALSE)
                  (+) SetToBag({called(inner)})
    /\ last' = Step(c, "deferred", <<OnSuccess(ParamItems)>>, <<>>)
    /\ UNCHANGED <<items, totalCountFetched, cfg, observed, status>>

\* switchMap() hands over to an operation started inside the pipe (refresh
\* for update, read for delete); the outer finalize runs when first()
\* completes, right after the inner operation has been subscribed.
Defer(c, inner) ==
    /\ SetTracking(finalize(c, enterBusy(inner, Tracking)))
    /\ calls' = noted(calls (-) SetToBag({c}),
                      {kind(c.op), kind(inner.op)}, FALSE)
                  (+) SetToBag({called(inner)})
    /\ last' = Step(c, "deferred", <<>>, <<>>)
    /\ UNCHANGED <<items, totalCountFetched, cfg, observed, status>>

\* forkJoin emits when the last request of the list completes.  A single
\* request delivers any payload; a list delivers the bare array of its n
\* values.
joined(c) == c.form = "one" \/ c.done = c.n - 1
delivers(c, f) ==
    c.form = "one" \/ (f.form = "array" /\ Len(f.items) = c.n)

\* forkJoin: one request of a list completes with a value while others are
\* still awaited; nothing is emitted downstream.
PartEmits(c) ==
    /\ c \in InFlight
    /\ c.form = "list"
    /\ ~joined(c)
    /\ calls' = (calls (-) SetToBag({c})) (+)
                SetToBag({[c EXCEPT !.done = @ + 1]})
    /\ last' = NoStep
    /\ UNCHANGED <<items, totalCountFetched, isCreating, isReading,
                   updatingItems, deletingItems, refreshingItems, cfg,
                   observed, status>>

CreateEmits(c, item) ==
    /\ c \in InFlight /\ c.op = "create"
    /\ Arrive(c, createNext(c, item))

CreateManyEmits(c, f) ==
    /\ c \in InFlight /\ c.op = "createMany" /\ joined(c) /\ delivers(c, f)
    /\ Arrive(c, createManyNext(c, f))

ReadEmits(c, f) ==
    /\ c \in InFlight /\ c.op = "read"
    /\ Arrive(c, readNext(c, f))

ReadOneEmits(c, item) ==
    /\ c \in InFlight /\ c.op = "readOne"
    /\ Arrive(c, readOneNext(c, item))

ReadManyEmits(c, f) ==
    /\ c \in InFlight /\ c.op = "readMany" /\ joined(c) /\ delivers(c, f)
    /\ Arrive(c, readManyNext(c, f))

RefreshEmits(c, item) ==
    /\ c \in InFlight /\ c.op = "refresh"
    /\ Arrive(c, refreshNext(c, item))

RefreshManyEmits(c, f) ==
    /\ c \in InFlight /\ c.op = "refreshMany" /\ joined(c) /\ delivers(c, f)
    /\ Arrive(c, refreshManyNext(c, f))

\* Defective variant of UpdateEmits: the refreshRequest is not looked at and
\* the value the update request emitted is merged.
UpdateEmitsMerging(c, item) ==
    /\ c \in InFlight /\ c.op = "update"
    /\ Arrive(c, updateNext(c, item))

\* update: with a refreshRequest the emitted value is dropped and refresh()
\* is called with the caller's item and callbacks.
UpdateEmits(c, item) ==
    /\ c \in InFlight /\ c.op = "update"
    /\ IF c.refreshRequest
       THEN Defer(c, [RefreshCall(c.item) EXCEPT !.via = "update"])
       ELSE Arrive(c, updateNext(c, item))

\* updateMany: the request yields T[] (or null), never {items, totalCount}.
UpdateManyEmits(c, f) ==
    /\ c \in InFlight /\ c.op = "updateMany" /\ joined(c) /\ delivers(c, f)
    /\ f.form # "object"
    /\ IF c.refreshRequest
       THEN Defer(c, [RefreshManyCall(c.its, <<"one", 1>>)
                        EXCEPT !.via = "updateMany"])
       ELSE Arrive(c, updateManyNext(c, f))

\* delete: with a readRequest read() is called; its onSuccess hands the
\* delete response to the caller.
DeleteEmits(c, r) ==
    /\ c \in InFlight /\ c.op = "delete"
    /\ IF c.readRequest
       THEN Defer(c, [ReadCall(FALSE) EXCEPT !.via = "delete"])
       ELSE Arrive(c, deleteNext(c, <<r>>))

\* deleteMany: forkJoin wraps even a single request, so the response is
\* always the array of the n responses.
DeleteManyEmits(c, rs) ==
    /\ c \in InFlight /\ c.op = "deleteMany" /\ joined(c) /\ Len(rs) = c.n
    /\ IF c.readRequest
       THEN Defer(c, [ReadCall(FALSE) EXCEPT !.via = "deleteMany"])
       ELSE Arrive(c, deleteManyNext(c, rs))

\* The request fails (forkJoin: any request of the list fails), or completes
\* without a value (first() raises EmptyError).
RequestFails(c, e) ==
    /\ c \in InFlight
    /\ Arrive(c, errorNext(c, e))

\* Defective variant of Cancel: no finalize callback is attached, the
\* unsubscription leaves the tracking as it is.
CancelKeeping(c) ==
    /\ c \in InFlight
    /\ SetTracking(Tracking)
    /\ calls' = noted(calls (-) SetToBag({c}), {kind(c.op)}, FALSE)
    /\ last' = Step(c, "cancelled", <<>>, <<>>)
    /\ UNCHANGED <<items, totalCountFetched, cfg, observed, status>>

\* The caller unsubscribes before the request has emitted: only the
\* finalize callback runs.
Cancel(c) ==
    /\ c \in InFlight
    /\ SetTracking(finalize(c, Tracking))
    /\ calls' = noted(calls (-) SetToBag({c}), {kind(c.op)}, FALSE)
    /\ last' = Step(c, "cancelled", <<>>, <<>>)
    /\ UNCHANGED <<items, totalCountFetched, cfg, observed, status>>

\* The synchronous step returns to the event loop; what it did (the
\* callbacks it invoked, the events it broadcast) is now in the past.
Return ==
    /\ last # NoStep
    /\ last' = NoStep
    /\ UNCHANGED <<items, totalCountFetched, isCreating, isReading,
                   updatingItems, deletingItems, refreshingItems, cfg,
                   observed, calls, status>>

\* ---------------------------------------------------------------- specification
Values       == Entities \cup {Nothing}
Fetched      == FetchedUpTo(MaxBatch)
ResponseLists == UNION {[1..k -> {RespNoField, 0}] : k \in 1..MaxBatch}
\* Steps run to completion: the next call or arrival is taken up once the
\* step before it has returned to the event loop.
Quiet        == last = NoStep
Idle         == Quiet /\ calls = EmptyBag
Room         == Quiet /\ BagCardinality(calls) < MaxCalls

\* One operation at a time, every operation, every payload, every setting
\* of the options; the four listeners are attached or not.
Next ==
    \/ Idle /\ Create
    \/ Idle /\ \E rf \in RequestForms : CreateMany(rf)
    \/ Idle /\ \E keep \in BOOLEAN : Read(keep)
    \/ Idle /\ ReadOne
    \/ Idle /\ \E rf \in RequestForms : ReadMany(rf)
    \/ Idle /\ \E p \in Partials, rr \in BOOLEAN : Update(p, rr)
    \/ Idle /\ \E ps \in PartialLists, rr \in BOOLEAN :
                  \E rf \in FormsFor(ps) : UpdateMany(ps, rf, rr)
    \/ Idle /\ \E p \in Partials, rd \in BOOLEAN : Delete(p, DecrAbsent, rd)
    \/ Idle /\ \E ps \in PartialLists, rd \in BOOLEAN :
                  \E rf \in FormsFor(ps) : DeleteMany(ps, rf, DecrAbsent, rd)
    \/ Idle /\ \E p \in Partials : Refresh(p)
    \/ Idle /\ \E ps \in PartialLists :
                  \E rf \in FormsFor(ps) : RefreshMany(ps, rf)
    \/ Quiet /\ \E c \in InFlight : PartEmits(c)
    \/ Quiet /\ \E c \in InFlight, item \in Values  : CreateEmits(c, item)
    \/ Quiet /\ \E c \in InFlight, f \in Fetched  : CreateManyEmits(c, f)
    \/ Quiet /\ \E c \in InFlight, f \in Fetched  : ReadEmits(c, f)
    \/ Quiet /\ \E c \in InFlight, item \in Values  : ReadOneEmits(c, item)
    \/ Quiet /\ \E c \in InFlight, f \in Fetched  : ReadManyEmits(c, f)
    \/ Quiet /\ \E c \in InFlight, item \in Values  : RefreshEmits(c, item)
    \/ Quiet /\ \E c \in InFlight, f \in Fetched  : RefreshManyEmits(c, f)
    \/ Quiet /\ \E c \in InFlight, item \in Values : UpdateEmits(c, item)
    \/ Quiet /\ \E c \in InFlight, f \in Fetched : UpdateManyEmits(c, f)
    \/ Quiet /\ \E c \in InFlight, r \in {RespNoField, 0} : DeleteEmits(c, r)
    \/ Quiet /\ \E c \in InFlight, rs \in ResponseLists : DeleteManyEmits(c, rs)
    \/ Quiet /\ \E c \in InFlight, e \in Errors : RequestFails(c, e)
    \/ Quiet /\ \E c \in InFlight : Cancel(c)
    \/ Return

Spec == Init /\ [][Next]_vars

\* The same for the service as constructed without options and without
\* listeners.
Default == [throwOnDuplicates |-> FALSE, allowFetchedDuplicates |-> TRUE]
InitDefault == Constructed(Default, {})

SpecDefault == InitDefault /\ [][Next]_vars

\* ---------------------------------------------------------------- overlapping calls

\* Up to MaxCalls calls of any operation await their requests at the same
\* time; requests resolve, fail or are cancelled in any order.  Every call
\* passes a single request, which resolves to the one entity TrackEntity or
\* to a bare array holding it.
Single      == <<"one", 1>>
TrackEntity == [id |-> 1, v |-> 1]
TrackBatch  == FetchedArray(<<TrackEntity>>)

NextTrack ==
    \/ Room /\ Create
    \/ Room /\ CreateMany(Single)
    \/ Room /\ Read(FALSE)
    \/ Room /\ ReadOne
    \/ Room /\ ReadMany(Single)
    \/ Room /\ \E p \in Partials, rr \in BOOLEAN : Update(p, rr)
    \/ Room /\ \E ps \in PartialLists : UpdateMany(ps, Single, FALSE)
    \/ Room /\ \E p \in Partials, rd \in BOOLEAN : Delete(p, DecrAbsent, rd)
    \/ Room /\ \E ps \in PartialLists : DeleteMany(ps, Single, DecrAbsent, FALSE)
    \/ Room /\ \E p \in Partials : Refresh(p)
    \/ Room /\ \E ps \in PartialLists : RefreshMany(ps, Single)
    \/ Quiet /\ \E c \in InFlight : CreateEmits(c, TrackEntity)
    \/ Quiet /\ \E c \in InFlight : CreateManyEmits(c, TrackBatch)
    \/ Quiet /\ \E c \in InFlight : ReadEmits(c, TrackBatch)
    \/ Quiet /\ \E c \in InFlight : ReadOneEmits(c, TrackEntity)
    \/ Quiet /\ \E c \in InFlight : ReadManyEmits(c, TrackBatch)
    \/ Quiet /\ \E c \in InFlight : RefreshEmits(c, TrackEntity)
    \/ Quiet /\ \E c \in InFlight : RefreshManyEmits(c, TrackBatch)
    \/ Quiet /\ \E c \in InFlight : UpdateEmits(c, TrackEntity)
    \/ Quiet /\ \E c \in InFlight : UpdateManyEmits(c, TrackBatch)
    \/ Quiet /\ \E c \in InFlight : DeleteEmits(c, RespNoField)
    \/ Quiet /\ \E c \in InFlight : DeleteManyEmits(c, <<RespNoField>>)
    \/ Quiet /\ \E c \in InFlight : RequestFails(c, "error")
    \/ Quiet /\ \E c \in InFlight : Cancel(c)
    \/ Return

SpecTrack == InitDefault /\ [][NextTrack]_vars

\* Up to MaxCalls single-entity operations in flight at the same time, each
\* request resolving to any entity.
NextOverlap ==
    \/ Room /\ Create
    \/ Room /\ ReadOne
    \/ Room /\ \E p \in Partials : Update(p, FALSE)
    \/ Room /\ \E p \in Partials : Delete(p, DecrAbsent, FALSE)
    \/ Room /\ \E p \in Partials : Refresh(p)
    \/ Quiet /\ \E c \in InFlight, item \in Entities :
                  CreateEmits(c, item)
    \/ Quiet /\ \E c \in InFlight, item \in Entities :
                  ReadOneEmits(c, item)
    \/ Quiet /\ \E c \in InFlight, item \in Entities :
                  RefreshEmits(c, item)
    \/ Quiet /\ \E c \in InFlight, item \in Entities : UpdateEmits(c, item)
    \/ Quiet /\ \E c \in InFlight : DeleteEmits(c, RespNoField)
    \/ Quiet /\ \E c \in InFlight : RequestFails(c, "error")
    \/ Quiet /\ \E c \in InFlight : Cancel(c)
    \/ Return

SpecOverlap == InitDefault /\ [][NextOverlap]_vars

\* ================================================================ properties
\* The entities passed to a call, and the items left when the elements equal
\* to an entity are taken out.
entitiesOf(c) == IF c.item # Nothing THEN <<c.item>> ELSE c.its
others(arr, e) ==
    LET differs(x) == ~equal(x, e) IN SelectSeq(arr, differs)
TrackingOps == UpdateOps \cup DeleteOps \cup RefreshOps
Tracked(c) ==
    \A i \in 1..Len(entitiesOf(c)) :
        has(entitiesOf(c)[i], trackedBy(c.op, Tracking))
Untracked(c) ==
    \A i \in 1..Len(entitiesOf(c)) :
        ~has(entitiesOf(c)[i], trackedBy(c.op, Tracking))

\* C1 -- no two elements of items are Comparator-equal, unless a read with
\* allowFetchedDuplicates put them there: a step that brings the first
\* duplicate into items is a read that committed under allowFetchedDuplicates.
C1_OnlyTolerantReadBringsDuplicates ==
    [][(hasDuplicates(items) = Nothing /\ hasDuplicates(items') # Nothing)
          => /\ last'.op = "read"
             /\ last'.outcome = "committed"
             /\ cfg.allowFetchedDuplicates]_vars

\* C2 -- while the request of an update, updateMany, delete, deleteMany,
\* refresh or refreshMany call is awaited, every entity passed to the call is
\* a member of the call's tracking set.
C2_TrackedWhileAwaited ==
    \A c \in InFlight : c.op \in TrackingOps => Tracked(c)

\* C3 -- isCreating is true whenever a create or createMany call is in
\* flight, isReading whenever a read, readOne or readMany call is.
C3_FlagWhileAwaited ==
    /\ (\E c \in InFlight : c.op \in CreateOps) => isCreating
    /\ (\E c \in InFlight : c.op \in ReadOps) => isReading

\* C4 -- when a tracked call has completed (success, duplicate rejection or
\* failure) and no other call of its kind started or finished in between,
\* its tracking set has the size it had just before the call.
C4_TrackingSizeRestored ==
    (/\ last.op \in TrackingOps
     /\ last.outcome \in {"committed", "rejected", "failed"}
     /\ last.alone)
       => Len(trackedBy(last.op, Tracking)) = last.size0

\* C5 -- every member of a tracking set equals an entity passed to a call of
\* that kind still in flight, a busy flag is true only if a call of its
\* family is in flight, and with nothing in flight the sets are empty and
\* the flags false.
C5_TrackedOnlyWhileAwaited ==
    /\ \A i \in 1..Len(updatingItems) :
          \E c \in InFlight :
              c.op \in UpdateOps /\ has(updatingItems[i], entitiesOf(c))
    /\ \A i \in 1..Len(deletingItems) :
          \E c \in InFlight :
              c.op \in DeleteOps /\ has(deletingItems[i], entitiesOf(c))
    /\ \A i \in 1..Len(refreshingItems) :
          \E c \in InFlight :
              c.op \in RefreshOps /\ has(refreshingItems[i], entitiesOf(c))
    /\ isCreating => \E c \in InFlight : c.op \in CreateOps
    /\ isReading => \E c \in InFlight : c.op \in ReadOps
    /\ calls = EmptyBag =>
          /\ updatingItems = <<>> /\ deletingItems = <<>>
          /\ refreshingItems = <<>>
          /\ ~isCreating /\ ~isReading

\* Two calls in flight, a batched update among them, with tracked entities
\* and a busy flag.
C5_Witness ==
    /\ BagCardinality(calls) = 2
    /\ \E c \in InFlight : c.op = "updateMany" /\ Len(c.its) = 2
    /\ Len(updatingItems) = 2
    /\ isCreating

\* The operations whose error handler only reports the failure.
FailureOps == {"create", "createMany", "readOne", "update", "updateMany",
               "delete", "deleteMany", "refresh", "refreshMany"}

\* C6 -- when the request of create, createMany, readOne, update,
\* updateMany, delete, deleteMany, refresh or refreshMany fails (any request
\* of a list), items and totalCountFetched are unchanged, onError alone is
\* called, with the failure, no event is broadcast, and the call's busy flag
\* or tracking entries are cleared.
C6_FailureCommitsNothing ==
    [][\A c \in InFlight :
          (c.op \in FailureOps /\ last'.outcome = "failed") =>
              \A e \in Errors :
                  RequestFails(c, e) =>
                      /\ items' = items
                      /\ totalCountFetched' = totalCountFetched
                      /\ last'.cbs = <<OnError(e)>>
                      /\ last'.evs = <<>>
                      /\ c.op \in CreateOps => ~isCreating'
                      /\ c.op \in ReadOps => ~isReading'
                      /\ c.op \in TrackingOps => Untracked(c)']_vars

\* A list of requests given to updateMany, one of which had succeeded when
\* another failed, with items and a total held.
C6_Witness ==
    /\ last.op = "updateMany" /\ last.outcome = "failed" /\ last.done > 0
    /\ last.cbs = <<OnError("error")>>
    /\ items # <<>> /\ totalCountFetched # Undefined

\* C7 -- a commit is computed from the items as they are when the result
\* arrives: create appends to them, readOne / refresh / update leave every
\* element that is not equal to the emitted entity as it is and where it is,
\* and hold the emitted entity, delete takes out the elements equal to its
\* entity and nothing else.
C7_CommitFromItemsAtArrival ==
    [][\A c \in InFlight :
          (last'.op = c.op /\ last'.outcome = "committed") =>
              \A item \in Entities :
                  /\ CreateEmits(c, item) => items' = Append(items, item)
                  /\ (\/ ReadOneEmits(c, item)
                      \/ RefreshEmits(c, item)
                      \/ UpdateEmits(c, item))
                        => /\ others(items', item) = others(items, item)
                           /\ \E i \in 1..Len(items') : items'[i] = item
                  /\ (\E r \in Responses : DeleteEmits(c, r))
                        => items' = others(items, c.item)]_vars

\* A create committed after another operation had committed while its
\* request was awaited, and both entities are in items.
C7_Witness ==
    /\ last.op = "create" /\ last.outcome = "committed" /\ last.overlapped
    /\ Len(items) = 2 /\ ~equal(items[1], items[2])

C9_CreateManyRejectsDuplicates ==
    [][\A c \in InFlight :
          (c.op = "createMany" /\ last'.op = "createMany") =>
              \A f \in Fetched :
                  (f.form # "null" /\ Len(f.items) > 0
                     /\ CreateManyEmits(c, f)) =>
                      IF \E i \in 1..Len(f.items) : has(f.items[i], items)
                      THEN /\ items' = items
                           /\ last'.cbs = <<OnError(ParamDuplicate)>>
                      ELSE last'.outcome = "committed"
                              => items' = items \o f.items]_vars

\* C10 -- a read that resolves to a result without internal duplicates
\* leaves items equal to the fetched sequence.
C10_ReadReplacesItems ==
    [][\A c \in InFlight :
          (c.op = "read" /\ last'.op = "read") =>
              \A f \in Fetched :
                  (/\ f.form # "null"
                   /\ ReadEmits(c, f)
                   /\ hasDuplicates(f.items) = Nothing)
                     => /\ last'.outcome = "committed"
                        /\ items' = f.items]_vars

\* A read committed a single fetched entity under a structured payload.
C10_Witness ==
    /\ last.op = "read" /\ last.outcome = "committed"
    /\ Len(items) = 1 /\ totalCountFetched = 1

\* ---------------------------------------------------------------- throwOnDuplicates
\* The service constructed with throwOnDuplicates (allowFetchedDuplicates
\* left at its default), one operation at a time.
Throwing == [throwOnDuplicates |-> TRUE, allowFetchedDuplicates |-> TRUE]
InitThrowing == Constructed(Throwing, {})

SpecThrowing == InitThrowing /\ [][Next]_vars

\* C11 -- when the request of read or readMany fails, items is reset to
\* empty and totalCountFetched to unset unless keepExistingOnError is set
\* (then both are kept), onError is called with the failure and isReading is
\* cleared.
C11_ReadFailureResets ==
    [][\A c \in InFlight :
          (c.op \in {"read", "readMany"} /\ last'.outcome = "failed") =>
              \A e \in Errors :
                  RequestFails(c, e) =>
                      /\ IF c.keepExistingOnError
                         THEN /\ items' = items
                              /\ totalCountFetched' = totalCountFetched
                         ELSE /\ items' = <<>>
                              /\ totalCountFetched' = Undefined
                      /\ last'.cbs = <<OnError(e)>>
                      /\ ~isReading']_vars

\* C12 -- a read whose fetched result holds two equal entities: with
\* allowFetchedDuplicates the result is accepted, items becomes the fetched
\* sequence and onSuccess is called; without it the result is rejected,
\* items is reset to empty (kept under keepExistingOnError), onError is
\* called with the duplicate sentinel, onSuccess is not called and no read
\* event is broadcast; whatever the other options are.
C12_AllowFetchedDuplicatesDecides ==
    [][\A c \in InFlight :
          (c.op = "read" /\ last'.op = "read") =>
              \A f \in Fetched :
                  (/\ f.form # "null"
                   /\ ReadEmits(c, f)
                   /\ hasDuplicates(f.items) # Nothing) =>
                      IF cfg.allowFetchedDuplicates
                      THEN /\ items' = f.items
                           /\ \E k \in 1..Len(last'.cbs) :
                                  last'.cbs[k].cb = "onSuccess"
                      ELSE /\ items' = IF c.keepExistingOnError THEN items
                                       ELSE <<>>
                           /\ last'.cbs = <<OnError(ParamDuplicate)>>
                           /\ last'.evs = <<>>]_vars

Decrements ==
    {DecrAbsent, DecrBoolean(TRUE), DecrBoolean(FALSE), DecrString}
      \cup {DecrNumber(n, TRUE) : n \in -1..(MaxTotal + 1)}
      \cup {DecrNumber(n, FALSE) : n \in 0..MaxTotal}
AllResponseLists == UNION {[1..k -> Responses] : k \in 1..MaxBatch}

NextDelete ==
    \/ Idle /\ Read(FALSE)
    \/ Idle /\ \E p \in Partials, d \in Decrements, rd \in BOOLEAN :
                  Delete(p, d, rd)
    \/ Idle /\ \E ps \in PartialLists, d \in Decrements, rd \in BOOLEAN :
                  \E rf \in FormsFor(ps) : DeleteMany(ps, rf, d, rd)
    \/ Quiet /\ \E c \in InFlight : PartEmits(c)
    \/ Quiet /\ \E c \in InFlight, f \in Fetched : ReadEmits(c, f)
    \/ Quiet /\ \E c \in InFlight, r \in Responses : DeleteEmits(c, r)
    \/ Quiet /\ \E c \in InFlight, rs \in AllResponseLists :
                   DeleteManyEmits(c, rs)
    \/ Quiet /\ \E c \in InFlight, e \in Errors : RequestFails(c, e)
    \/ Return

SpecDelete == InitDefault /\ [][NextDelete]_vars

\* A deletion without readRequest or decrementTotalCount, possibly while an
\* update or a refresh awaits its request.
Beside ==
    /\ Room
    /\ \A c \in InFlight : c.op \in {"update", "refresh"}

NextRemove ==
    \/ Idle /\ Read(FALSE)
    \/ Idle /\ \E p \in Partials : Update(p, FALSE)
    \/ Idle /\ \E p \in Partials : Refresh(p)
    \/ Beside /\ \E p \in Partials : Delete(p, DecrAbsent, FALSE)
    \/ Beside /\ \E ps \in PartialLists :
                    \E rf \in FormsFor(ps) :
                        DeleteMany(ps, rf, DecrAbsent, FALSE)
    \/ Quiet /\ \E c \in InFlight : PartEmits(c)
    \/ Quiet /\ \E c \in InFlight, f \in Fetched : ReadEmits(c, f)
    \/ Quiet /\ \E c \in InFlight, item \in Entities : UpdateEmits(c, item)
    \/ Quiet /\ \E c \in InFlight, item \in Entities : RefreshEmits(c, item)
    \/ Quiet /\ \E c \in InFlight, r \in {RespNoField, 0} : DeleteEmits(c, r)
    \/ Quiet /\ \E c \in InFlight, rs \in ResponseLists :
                   DeleteManyEmits(c, rs)
    \/ Quiet /\ \E c \in InFlight, e \in Errors : RequestFails(c, e)
    \/ Return

SpecRemove == InitDefault /\ [][NextRemove]_vars

\* ---------------------------------------------------------------- deletion properties
\* C14 -- delete or deleteMany with a readRequest: when the delete request
\* has succeeded the deletion changes neither items nor totalCountFetched
\* (decrementTotalCount is ignored) and a read with the readRequest is
\* started; items and totalCountFetched end up as that read leaves them
\* (the fetched items and total on success, the reset of a failed read), and
\* onSuccess receives the delete response, not the items read.
C14_ReadRequestWins ==
    [][\A c \in InFlight :
          /\ (/\ c.op \in {"delete", "deleteMany"} /\ c.readRequest
              /\ last'.op = c.op
              /\ \/ \E r \in Responses : DeleteEmits(c, r)
                 \/ \E rs \in AllResponseLists : DeleteManyEmits(c, rs))
                  => /\ items' = items
                     /\ totalCountFetched' = totalCountFetched
                     /\ last'.cbs = <<>> /\ last'.evs = <<>>
                     /\ \E r \in BagToSet(calls') :
                            r.op = "read" /\ r.via = c.op
          /\ (c.op = "read" /\ c.via \in {"delete", "deleteMany"}
                /\ last'.op = "read") =>
                /\ \A f \in Fetched :
                       (ReadEmits(c, f) /\ last'.outcome = "committed") =>
                           /\ items' = f.items
                           /\ totalCountFetched' =
                                  IF f.form = "array" THEN Undefined
                                  ELSE f.totalCount
                           /\ last'.cbs = <<OnSuccess(ParamResponse)>>
                /\ \A e \in Errors :
                       (RequestFails(c, e) /\ last'.outcome = "failed") =>
                           /\ items' = <<>>
                           /\ totalCountFetched' = Undefined
                           /\ last'.cbs = <<OnError(e)>>]_vars

\* The read started by a deletion has committed and handed the delete
\* response to onSuccess.
C14_Witness ==
    /\ last.op = "read" /\ last.via \in {"delete", "deleteMany"}
    /\ last.outcome = "committed"
    /\ last.cbs = <<OnSuccess(ParamResponse)>>
    /\ Len(items) > 0
    /\ totalCountFetched # Undefined

\* The partial entities a deletion was given.
goneOf(c) == IF c.op = "delete" THEN <<c.item>> ELSE c.its
\* arr without the elements equal to one of the partial entities.
remaining(arr, gone) ==
    LET stays(x) == \A k \in 1..Len(gone) : ~equal(x, gone[k])
    IN  SelectSeq(arr, stays)

DeleteCommits(c) ==
    /\ c.op \in {"delete", "deleteMany"} /\ ~c.readRequest
    /\ last'.op = c.op /\ last'.outcome = "committed"

\* C16 -- decrementTotalCount given as a field name: when the response (of
\* delete), or the first response of the batch (of deleteMany, however many
\* responses it has), exposes the field as a non-negative integer,
\* totalCountFetched becomes that value whatever it was; otherwise it is
\* unchanged.
C16_FieldOfFirstResponse ==
    [][\A c \in InFlight :
          (DeleteCommits(c) /\ c.decrementTotalCount = DecrString) =>
              /\ \A r \in Responses :
                     DeleteEmits(c, r) =>
                         totalCountFetched' =
                             IF r >= 0 THEN r ELSE totalCountFetched
              /\ \A rs \in AllResponseLists :
                     DeleteManyEmits(c, rs) =>
                         totalCountFetched' =
                             IF rs[1] >= 0 THEN rs[1]
                             ELSE totalCountFetched]_vars

\* C17 -- decrementTotalCount given as a number n: when n is a positive
\* whole number not greater than the current totalCountFetched the new
\* total is the current one minus n; otherwise (zero, negative, fractional,
\* greater than the total, or the total unset) the total is unchanged, the
\* items are still removed and onSuccess, not onError, is called.
C17_DecrementByNumber ==
    [][\A c \in InFlight :
          (/\ c.op \in {"delete", "deleteMany"} /\ ~c.readRequest
           /\ c.decrementTotalCount.t = "number"
           /\ last'.op = c.op /\ last'.outcome \notin {"failed", "cancelled"}
           /\ joined(c)) =>
              LET d == c.decrementTotalCount
              IN  /\ totalCountFetched' =
                         IF /\ d.whole /\ d.n > 0
                            /\ totalCountFetched # Undefined
                            /\ d.n <= totalCountFetched
                         THEN totalCountFetched - d.n
                         ELSE totalCountFetched
                  /\ items' = remaining(items, goneOf(c))
                  /\ last'.outcome = "committed"
                  /\ last'.cbs = <<OnSuccess(ParamResponse)>>]_vars

\* A delete with decrementTotalCount: 1 has lowered the total from 1 to 0.
C17_Witness ==
    /\ last.op = "delete" /\ last.outcome = "committed"
    /\ last.decrementTotalCount = DecrNumber(1, TRUE)
    /\ totalCountFetched = 0

\* C18 -- decrementTotalCount given as true: the new total is the current
\* one minus the number of entities actually removed from items, only when
\* the current total is at least that number; a deletion that removes
\* nothing leaves the total unchanged.
C18_DecrementByRemoved ==
    [][\A c \in InFlight :
          (DeleteCommits(c) /\ c.decrementTotalCount = DecrBoolean(TRUE)) =>
              LET removed == Len(items) - Len(remaining(items, goneOf(c)))
              IN  totalCountFetched' =
                      IF /\ totalCountFetched # Undefined
                         /\ totalCountFetched >= removed
                      THEN totalCountFetched - removed
                      ELSE totalCountFetched]_vars

\* ---------------------------------------------------------------- fetched totals
\* The request of a read-family or createMany call emits the batch f and the
\* handler runs to its end.
BatchEmits(c, f) ==
    \/ c.op = "read" /\ ReadEmits(c, f)
    \/ c.op = "readMany" /\ ReadManyEmits(c, f)
    \/ c.op = "createMany" /\ CreateManyEmits(c, f)
    \/ c.op = "refreshMany" /\ RefreshManyEmits(c, f)

\* C19 -- read, readMany, createMany and refreshMany: a result delivered as
\* a bare sequence leaves totalCountFetched exactly as it was; a structured
\* result changes it only when it carries a totalCount.
C19_TotalOnlyFromStructuredResult ==
    [][\A c \in InFlight :
          (/\ c.op \in {"read", "readMany", "createMany", "refreshMany"}
           /\ last'.op = c.op
           /\ last'.outcome \in {"committed", "count", "ignored"}) =>
              \A f \in Fetched :
                  (/\ BatchEmits(c, f)
                   /\ \/ f.form = "array"
                      \/ f.form = "object" /\ f.totalCount = Undefined)
                    => totalCountFetched' = totalCountFetched]_vars

\* ---------------------------------------------------------------- listeners
\* listenForCreate/Read/Update/Delete(): a subscriber attaches to the plain
\* Subject of the channel, which replays nothing; or the last subscriber of
\* the channel detaches.
Listen(ch) ==
    /\ ch \notin observed
    /\ observed' = observed \cup {ch}
    /\ last' = NoStep
    /\ UNCHANGED <<items, totalCountFetched, isCreating, isReading,
                   updatingItems, deletingItems, refreshingItems, cfg, calls,
                   status>>

Unlisten(ch) ==
    /\ ch \in observed
    /\ observed' = observed \ {ch}
    /\ last' = NoStep
    /\ UNCHANGED <<items, totalCountFetched, isCreating, isReading,
                   updatingItems, deletingItems, refreshingItems, cfg, calls,
                   status>>

\* One single-entity operation or read at a time, while listeners attach and
\* detach between the steps.
NextListen ==
    \/ Quiet /\ \E ch \in Channels : Listen(ch)
    \/ Quiet /\ \E ch \in Channels : Unlisten(ch)
    \/ Idle /\ Create
    \/ Idle /\ Read(FALSE)
    \/ Idle /\ \E p \in Partials : Update(p, FALSE)
    \/ Idle /\ \E p \in Partials : Delete(p, DecrAbsent, FALSE)
    \/ Quiet /\ \E c \in InFlight, item \in Values : CreateEmits(c, item)
    \/ Quiet /\ \E c \in InFlight, f \in Fetched : ReadEmits(c, f)
    \/ Quiet /\ \E c \in InFlight, item \in Values : UpdateEmits(c, item)
    \/ Quiet /\ \E c \in InFlight : DeleteEmits(c, RespNoField)
    \/ Quiet /\ \E c \in InFlight, e \in Errors : RequestFails(c, e)
    \/ Return

SpecListen ==
    (\E o \in Options : Constructed(o, {})) /\ [][NextListen]_vars

\* The channel on which an operation broadcasts what it committed.
channelOf(op) ==
    IF op \in CreateOps THEN "created"
    ELSE IF op \in UpdateOps THEN "updated"
    ELSE IF op \in DeleteOps THEN "deleted"
    ELSE "read"

\* C20 -- a mutation event is broadcast only by a step in which an
\* operation committed, on the channel of that operation and only when the
\* channel has a listener at that moment; a duplicate rejection or a failure
\* broadcasts nothing, and a listener that attaches receives nothing of the
\* commits made before.
C20_EventsOnlyOnCommitToListeners ==
    [][/\ last'.evs # <<>> =>
             /\ last'.outcome = "committed"
             /\ last'.evs = <<channelOf(last'.op)>>
             /\ channelOf(last'.op) \in observed
       /\ last'.outcome \in {"rejected", "thrown", "failed"} =>
             last'.evs = <<>>
       /\ observed' # observed => last'.evs = <<>>]_vars

\* The second create has committed and its event was broadcast to the one
\* channel that has a listener.
C20_Witness ==
    /\ last.outcome = "committed"
    /\ last.evs = <<"created">>
    /\ Len(items) = 2
    /\ observed = {"created"}

\* ---------------------------------------------------------------- callbacks and tracking
\* The busy flag or a tracking entry of the call c is set.  The callbacks of
\* a step are invoked by the handler, before the finalize callback of the
\* pipe runs (finalize() sits above first()), so they see the tracking
\* fields of the state in which the step starts.
StillBusy(c) ==
    IF c.op \in CreateOps THEN isCreating
    ELSE IF c.op \in ReadOps THEN isReading
    ELSE \E i \in 1..Len(entitiesOf(c)) :
             has(entitiesOf(c)[i], trackedBy(c.op, Tracking))

\* C21 -- for every operation, on success and on failure, the busy flag or
\* tracking entry the call set is already cleared when its onSuccess or
\* onError is invoked.
C21_FinalizedBeforeCallbacks ==
    [][\A c \in InFlight :
          (last'.op = c.op /\ last'.via = c.via /\ last'.cbs # <<>>)
              => ~StillBusy(c)]_vars

\* ---------------------------------------------------------------- requests emitting several values
\* forkJoin (deleteMany wraps even a single request in it) keeps the latest
\* value of a request that emits without completing and emits nothing
\* downstream; DeleteManyEmits is the completion, which delivers the last
\* values.
Hears(c, r) ==
    /\ c \in InFlight /\ c.op = "deleteMany" /\ c.heard = <<>>
    /\ calls' = (calls (-) SetToBag({c})) (+)
                SetToBag({[c EXCEPT !.heard = <<r>>]})
    /\ last' = NoStep
    /\ UNCHANGED <<items, totalCountFetched, isCreating, isReading,
                   updatingItems, deletingItems, refreshingItems, cfg,
                   observed, status>>

\* deleteMany with a single request that may emit several values before it
\* completes; read fills the collection.
NextStream ==
    \/ Idle /\ Read(FALSE)
    \/ Idle /\ \E ps \in PartialLists, d \in {DecrAbsent, DecrString} :
                  DeleteMany(ps, Single, d, FALSE)
    \/ Quiet /\ \E c \in InFlight, r \in Responses : Hears(c, r)
    \/ Quiet /\ \E c \in InFlight, f \in Fetched : ReadEmits(c, f)
    \/ Quiet /\ \E c \in InFlight, r \in Responses :
                   DeleteManyEmits(c, <<r>>)
    \/ Quiet /\ \E c \in InFlight, e \in Errors : RequestFails(c, e)
    \/ Return

SpecStream == InitDefault /\ [][NextStream]_vars

\* C22 -- a call consumes exactly the first value its request emits: when
\* the request has emitted several values, the one commit the call makes is
\* the commit for the first of them.
C22_FirstValueOnly ==
    [][\A c \in InFlight :
          (/\ c.op = "deleteMany" /\ c.heard # <<>>
           /\ last'.op = "deleteMany" /\ last'.outcome = "committed") =>
              \E r \in tapResponse(c, deleteManyNext(c, c.heard)) :
                  /\ items' = r.items
                  /\ totalCountFetched' = r.total]_vars

\* ---------------------------------------------------------------- throwing callbacks
\* A call whose callbacks (and errReporter) behave as z says.
Raises == {"none", "callback", "both"}
Raising(c, z) == Start([c EXCEPT !.raises = z])

\* create, read, update and delete, one at a time, with callbacks that
\* throw or not and all four channels listened to.
NextCallbacks ==
    \/ Idle /\ \E z \in Raises : Raising(CreateCall, z)
    \/ Idle /\ \E z \in Raises : Raising(ReadCall(FALSE), z)
    \/ Idle /\ \E z \in Raises, p \in Partials :
                  Raising(UpdateCall(p, FALSE), z)
    \/ Idle /\ \E z \in Raises, p \in Partials :
                  Raising(DeleteCall(p, DecrAbsent, FALSE), z)
    \/ Quiet /\ \E c \in InFlight, item \in Values : CreateEmits(c, item)
    \/ Quiet /\ \E c \in InFlight, f \in Fetched : ReadEmits(c, f)
    \/ Quiet /\ \E c \in InFlight, item \in Values : UpdateEmits(c, item)
    \/ Quiet /\ \E c \in InFlight : DeleteEmits(c, RespNoField)
    \/ Quiet /\ \E c \in InFlight, e \in Errors : RequestFails(c, e)
    \/ Return

SpecCallbacks == Constructed(Default, Channels) /\ [][NextCallbacks]_vars

\* C23 -- an exception thrown by onSuccess or onError is routed to
\* errReporter and goes no further, also when errReporter throws itself:
\* the commit made before the callback stays, the event is still broadcast
\* and the busy flag or tracking entry of the call is cleared.
C23_CallbackExceptionContained ==
    [][\A c \in InFlight :
          (c.raises # "none" /\ last'.op = c.op /\ last'.cbs # <<>>) =>
              /\ last'.reported
              /\ c.op = "create" => ~isCreating'
              /\ c.op = "read" => ~isReading'
              /\ c.op = "update" => ~has(c.item, updatingItems')
              /\ c.op = "delete" => ~has(c.item, deletingItems')
              /\ \A item \in Entities :
                     (CreateEmits(c, item) /\ ~hasItemIn(item, items)) =>
                         /\ items' = Append(items, item)
                         /\ last'.cbs = <<OnSuccess(ParamItems)>>
                         /\ last'.evs = <<"created">>
              /\ \A f \in Fetched :
                     (/\ f.form # "null" /\ ReadEmits(c, f)
                      /\ hasDuplicates(f.items) = Nothing) =>
                         /\ items' = f.items
                         /\ last'.cbs = <<OnSuccess(ParamItems)>>
                         /\ last'.evs = <<"read">>
              /\ \A item \in Entities :
                     (UpdateEmits(c, item) /\ ~upsertOne(item, items).dup) =>
                         /\ items' = upsertOne(item, items).items
                         /\ last'.cbs = <<OnSuccess(ParamItems)>>
                         /\ last'.evs = <<"updated">>
              /\ DeleteEmits(c, RespNoField) =>
                     /\ items' = remaining(items, <<c.item>>)
                     /\ last'.cbs = <<OnSuccess(ParamResponse)>>
                     /\ last'.evs = <<"deleted">>
              /\ \A e \in Errors :
                     (RequestFails(c, e) /\ last'.outcome = "failed") =>
                         /\ items' = IF c.op = "read" THEN <<>> ELSE items
                         /\ last'.cbs = <<OnError(e)>>]_vars

\* A commit whose onSuccess threw: the exception was reported, the items
\* are in place and the event was broadcast.
C23_Witness ==
    /\ last.reported
    /\ last.outcome = "committed"
    /\ last.op = "create"
    /\ last.evs = <<"created">>
    /\ Len(items) > 0
    /\ ~isCreating

\* C24 -- an operation cancelled after the call and before its request has
\* emitted: the busy flag or the tracking entries the call set are cleared,
\* items and totalCountFetched are unchanged, and neither onSuccess nor
\* onError is invoked.
C24_CancelClearsTracking ==
    [][\A c \in InFlight :
          (last'.outcome = "cancelled" /\ last'.op = c.op /\ Cancel(c)) =>
              /\ items' = items
              /\ totalCountFetched' = totalCountFetched
              /\ last'.cbs = <<>> /\ last'.evs = <<>>
              /\ c.op \in CreateOps => ~isCreating'
              /\ c.op \in ReadOps => ~isReading'
              /\ c.op \in UpdateOps =>
                     \A i \in 1..Len(entitiesOf(c)) :
                         ~has(entitiesOf(c)[i], updatingItems')
              /\ c.op \in DeleteOps =>
                     \A i \in 1..Len(entitiesOf(c)) :
                         ~has(entitiesOf(c)[i], deletingItems')
              /\ c.op \in RefreshOps =>
                     \A i \in 1..Len(entitiesOf(c)) :
                         ~has(entitiesOf(c)[i], refreshingItems')]_vars

\* An updateMany was cancelled while the collection holds items: nothing
\* is tracked as updating any more.
C24_Witness ==
    /\ last.outcome = "cancelled" /\ last.op = "updateMany"
    /\ updatingItems = <<>>
    /\ Len(items) > 0
    /\ last.cbs = <<>>

\* ---------------------------------------------------------------- raised duplicates
ConflictOps == {"create", "createMany", "readOne", "readMany", "update",
                "updateMany", "refresh", "refreshMany"}

\* The request of c emits and the duplicate engine reports a conflict with
\* the items held.
Conflict(c) ==
    \/ /\ c.op \in {"create", "readOne", "update", "refresh"}
       /\ \E item \in Entities :
              /\ IF c.op = "create" THEN hasItemIn(item, items)
                 ELSE upsertOne(item, items).dup
              /\ \/ CreateEmits(c, item) \/ ReadOneEmits(c, item)
                 \/ UpdateEmits(c, item) \/ RefreshEmits(c, item)
    \/ /\ c.op \in {"createMany", "readMany", "updateMany", "refreshMany"}
       /\ \E f \in Fetched :
              /\ f.form # "null" /\ Len(f.items) > 0
              /\ upsertMany(f.items, items).dup
              /\ \/ CreateManyEmits(c, f) \/ ReadManyEmits(c, f)
                 \/ UpdateManyEmits(c, f) \/ RefreshManyEmits(c, f)

SetUniqueStatusBlind(key, e, active) ==
    /\ status' = [status EXCEPT ![key] = IF active THEN e ELSE Nothing]
    /\ last' = [NoStep EXCEPT !.op = "setUniqueStatus"]
    /\ UNCHANGED <<items, totalCountFetched, isCreating, isReading,
                   updatingItems, deletingItems, refreshingItems, cfg,
                   observed, calls>>

\* setUniqueStatus(status, item, active = true)
SetUniqueStatus(key, e, active) ==
    /\ status' =
          IF ~active
          THEN IF status[key] # Nothing /\ equal(e, status[key])
               THEN [status EXCEPT ![key] = Nothing]
               ELSE status
          ELSE [status EXCEPT ![key] = e]
    /\ last' = [NoStep EXCEPT !.op = "setUniqueStatus"]
    /\ UNCHANGED <<items, totalCountFetched, isCreating, isReading,
                   updatingItems, deletingItems, refreshingItems, cfg,
                   observed, calls>>

\* deleteUniqueStatus(status)
DeleteUniqueStatus(key) ==
    /\ status' = [status EXCEPT ![key] = Nothing]
    /\ last' = [NoStep EXCEPT !.op = "deleteUniqueStatus"]
    /\ UNCHANGED <<items, totalCountFetched, isCreating, isReading,
                   updatingItems, deletingItems, refreshingItems, cfg,
                   observed, calls>>

\* Unique statuses set and deleted between the steps of read and update.
NextStatus ==
    \/ Quiet /\ \E key \in StatusKeys, e \in Entities, active \in BOOLEAN :
                   SetUniqueStatus(key, e, active)
    \/ Quiet /\ \E key \in StatusKeys : DeleteUniqueStatus(key)
    \/ Idle /\ Read(FALSE)
    \/ Idle /\ \E p \in Partials : Update(p, FALSE)
    \/ Quiet /\ \E c \in InFlight, f \in Fetched : ReadEmits(c, f)
    \/ Quiet /\ \E c \in InFlight, item \in Entities : UpdateEmits(c, item)
    \/ Return

SpecStatus == InitDefault /\ [][NextStatus]_vars

\* Nothing but the binding of key has changed.
OnlyKey(key) ==
    /\ \A k \in StatusKeys \ {key} : status'[k] = status[k]
    /\ UNCHANGED <<items, totalCountFetched, isCreating, isReading,
                   updatingItems, deletingItems, refreshingItems>>

\* C26 -- setUniqueStatus(key, e) binds key to e, whoever held it before;
\* setUniqueStatus(key, e, false) removes the binding of key if and only if
\* the entity bound is Comparator-equal to e and otherwise leaves the map
\* as it is; deleteUniqueStatus(key) removes the binding unconditionally;
\* none of them changes the binding of another key, items or the tracking
\* sets.
C26_UniqueStatusBinding ==
    [][\A key \in StatusKeys :
          /\ \A e \in Entities :
                /\ (last'.op = "setUniqueStatus"
                      /\ SetUniqueStatus(key, e, TRUE)) =>
                       status'[key] = e /\ OnlyKey(key)
                /\ (last'.op = "setUniqueStatus"
                      /\ SetUniqueStatus(key, e, FALSE)) =>
                       /\ status'[key] =
                              IF status[key] # Nothing
                                   /\ status[key].id = e.id
                              THEN Nothing ELSE status[key]
                       /\ OnlyKey(key)
          /\ (last'.op = "deleteUniqueStatus" /\ DeleteUniqueStatus(key)) =>
                 status'[key] = Nothing /\ OnlyKey(key)]_vars

\* A key was taken over by another entity while the other key stays bound
\* and an update is awaited.
C26_Witness ==
    /\ last.op = "setUniqueStatus"
    /\ status["focused"] = [id |-> 2, v |-> 1]
    /\ status["expanded"] = [id |-> 1, v |-> 1]
    /\ Len(updatingItems) > 0
    /\ Len(items) > 0

\* ---------------------------------------------------------------- tracking sets
\* C27 -- no tracking set ever holds two Comparator-equal members, whether
\* the entity is added by a single call or by a batched call, by
\* overlapping calls or by a batch that names it twice.
C27_TrackingSetsHoldNoEqualMembers ==
    /\ hasDuplicates(updatingItems) = Nothing
    /\ hasDuplicates(deletingItems) = Nothing
    /\ hasDuplicates(refreshingItems) = Nothing

\* ---------------------------------------------------------------- the upsert engine
\* upsertOne and upsertMany applied to an array: `items` is the array
\* passed as target, which both change in place; `last` tells what the
\* call returned.
Returned(op, outcome) == [NoStep EXCEPT !.op = op, !.outcome = outcome]

UpsertOne(e) ==
    LET r == upsertOne(e, items)
    IN  /\ ~r.dup => Len(r.items) <= MaxItems + 1
        /\ items' = IF r.dup THEN items ELSE r.items
        /\ last' = Returned("upsertOne",
                            IF r.dup THEN "duplicate"
                            ELSE IF Len(r.items) > Len(items) THEN "appended"
                            ELSE "replaced")
        /\ UNCHANGED <<totalCountFetched, isCreating, isReading,
                       updatingItems, deletingItems, refreshingItems, cfg,
                       observed, calls, status>>

\* The target as the loop of upsertMany leaves it: the entities before the
\* rejected one have been upserted.
RECURSIVE leftBy(_, _, _)
leftBy(batch, i, to) ==
    IF i > Len(batch) \/ upsertOne(batch[i], to).dup THEN to
    ELSE leftBy(batch, i + 1, upsertOne(batch[i], to).items)

UpsertMany(batch) ==
    LET r == upsertMany(batch, items)
    IN  /\ ~r.dup => Len(r.items) <= MaxItems + 1
        /\ items' = IF hasDuplicates(batch) # Nothing THEN items
                    ELSE leftBy(batch, 1, items)
        /\ last' = Returned("upsertMany",
                            IF r.dup THEN "duplicate" ELSE "accepted")
        /\ UNCHANGED <<totalCountFetched, isCreating, isReading,
                       updatingItems, deletingItems, refreshingItems, cfg,
                       observed, calls, status>>

InitUpsert ==
    /\ items \in Batches(MaxItems)
    /\ totalCountFetched = Undefined
    /\ isCreating = FALSE /\ isReading = FALSE
    /\ updatingItems = <<>> /\ deletingItems = <<>>
    /\ refreshingItems = <<>>
    /\ cfg = Default /\ observed = {}
    /\ calls = EmptyBag /\ last = NoStep
    /\ status = [key \in StatusKeys |-> Nothing]

NextUpsert ==
    \/ \E e \in Entities : UpsertOne(e)
    \/ \E batch \in Batches(MaxBatch) : UpsertMany(batch)

SpecUpsert == InitUpsert /\ [][NextUpsert]_vars

\* The indexes of arr whose element is Comparator-equal to e.
matches(e, arr) == {i \in 1..Len(arr) : equal(e, arr[i])}

\* C28 -- upsertOne(item, items): with no element equal to item the result
\* is items with item appended; with exactly one, items with that element
\* replaced by item at its position and every other position unchanged;
\* with two or more, 'duplicate', and the sequence is left unmodified.
C28_UpsertOneCases ==
    [][\A e \in Entities :
          (last'.op = "upsertOne" /\ UpsertOne(e)) =>
              LET n == Cardinality(matches(e, items))
              IN  /\ n = 0 => /\ last'.outcome = "appended"
                              /\ items' = items \o <<e>>
                  /\ n = 1 => /\ last'.outcome = "replaced"
                              /\ Len(items') = Len(items)
                              /\ \A i \in 1..Len(items) :
                                     items'[i] = IF i \in matches(e, items)
                                                 THEN e ELSE items[i]
                  /\ n >= 2 => /\ last'.outcome = "duplicate"
                               /\ items' = items]_vars

\* upsertOne has replaced the one equal element of a sequence of two
\* different entities.
C28_Witness ==
    /\ last.op = "upsertOne" /\ last.outcome = "replaced"
    /\ Len(items) = 2
    /\ hasDuplicates(items) = Nothing

\* C29 -- upsertOne is idempotent: whenever upsertOne(e, s) is accepted,
\* upsertOne(e, .) applied to the result is accepted again and yields the
\* same sequence.
C29_UpsertOneIdempotent ==
    \A e \in Entities :
        LET r == upsertOne(e, items)
        IN  ~r.dup => upsertOne(e, r.items) = Accepted(r.items)

\* upsertOne was applied to a sequence that already held the entity as its
\* only element and returned the same sequence.
C29_Witness ==
    /\ last.op = "upsertOne" /\ last.outcome = "replaced"
    /\ Len(items) = 1
    /\ upsertOne(items[1], items) = Accepted(items)

\* upsertOne applied for each entity of the batch in batch order.
RECURSIVE applyEach(_, _)
applyEach(batch, to) ==
    IF batch = <<>> THEN to
    ELSE applyEach(Tail(batch), upsertOne(Head(batch), to).items)

\* C30 -- upsertMany(batch, items) returns a duplicate rejection naming the
\* offending entity when the batch holds two equal entities (items is not
\* touched then) or when an entity of the batch equals two or more elements
\* of the target; otherwise it returns what applying upsertOne for each
\* entity of the batch, in batch order, gives.
C30_UpsertManyFolds ==
    [][\A batch \in Batches(MaxBatch) :
          (last'.op = "upsertMany" /\ UpsertMany(batch)) =>
              LET r == upsertMany(batch, items)
                  twice == {k \in 1..Len(batch) :
                               Cardinality(matches(batch[k], items)) >= 2}
              IN  IF \E i, j \in 1..Len(batch) :
                         i < j /\ equal(batch[i], batch[j])
                  THEN /\ last'.outcome = "duplicate"
                       /\ r.dup
                       /\ \E i, j \in 1..Len(batch) :
                              /\ i < j /\ equal(batch[i], batch[j])
                              /\ r.duplicate = batch[j]
                       /\ items' = items
                  ELSE IF twice # {}
                       THEN /\ last'.outcome = "duplicate"
                            /\ r.dup
                            /\ \E k \in twice : r.duplicate = batch[k]
                       ELSE /\ last'.outcome = "accepted"
                            /\ ~r.dup
                            /\ r.items = applyEach(batch, items)
                            /\ items' = r.items]_vars

\* upsertMany has merged a batch into a target, which now holds two
\* different entities.
C30_Witness ==
    /\ last.op = "upsertMany" /\ last.outcome = "accepted"
    /\ Len(items) = 2
    /\ hasDuplicates(items) = Nothing

\* ---------------------------------------------------------------- callbacks of a call
\* C31 -- every call invokes at most one of onSuccess and onError, at most
\* once, and onSuccess only when the commit to items has been made.  A call
\* ends with the step that handles its request: the step invokes at most
\* one callback and the call is no longer awaited after it.  With a
\* refreshRequest or readRequest the step of update/delete invokes nothing
\* and leaves one operation in its place, started inside the call with the
\* call's callbacks, whose own step is the only one to invoke a callback.
C31_OneCallbackAfterCommit ==
    [][last'.op # "none" =>
          /\ Len(last'.cbs) <= 1
          /\ \E c \in InFlight :
                /\ c.op = last'.op /\ c.via = last'.via
                /\ IF last'.outcome = "deferred"
                   THEN /\ last'.cbs = <<>>
                        /\ items' = items
                        /\ BagCardinality(calls') = BagCardinality(calls)
                        /\ \E r \in BagToSet(calls') : r.via = c.op
                   ELSE BagCardinality(calls') = BagCardinality(calls) - 1
          /\ \A k \in 1..Len(last'.cbs) :
                last'.cbs[k].cb = "onSuccess" =>
                    last'.outcome = "committed"]_vars

\* The refreshMany started inside an updateMany has committed and invoked
\* the caller's onSuccess, the only callback of the call.
C31_Witness ==
    /\ last.op = "refreshMany" /\ last.via = "updateMany"
    /\ last.outcome = "committed"
    /\ last.cbs = <<OnSuccess(ParamItems)>>

\* ---------------------------------------------------------------- null results
\* The operations whose handler tests the emitted value for null before
\* anything else.
NullTolerantOps == {"create", "createMany", "readOne", "refresh",
                    "refreshMany", "update", "updateMany"}

\* The request of call c emits null as its first value.
EmitsNull(c) ==
    \/ CreateEmits(c, Nothing)
    \/ CreateManyEmits(c, FetchedNull)
    \/ ReadOneEmits(c, Nothing)
    \/ RefreshEmits(c, Nothing)
    \/ RefreshManyEmits(c, FetchedNull)
    \/ UpdateEmits(c, Nothing)
    \/ UpdateManyEmits(c, FetchedNull)

\* C32 -- when the first value emitted by the request of create,
\* createMany, readOne, refresh, refreshMany, update or updateMany (the last
\* two without refreshRequest) is null: items and totalCountFetched are
\* unchanged, neither onSuccess nor onError is invoked, no event is
\* broadcast, and the busy flag or the tracking entries of the call are
\* cleared.
C32_NullResultChangesNothing ==
    [][\A c \in InFlight :
          (/\ c.op \in NullTolerantOps /\ ~c.refreshRequest
           /\ last'.op = c.op
           /\ EmitsNull(c)) =>
              /\ items' = items
              /\ totalCountFetched' = totalCountFetched
              /\ last'.cbs = <<>> /\ last'.evs = <<>>
              /\ c.op \in CreateOps => ~isCreating'
              /\ c.op \in ReadOps => ~isReading'
              /\ c.op \in UpdateOps =>
                     \A i \in 1..Len(entitiesOf(c)) :
                         ~has(entitiesOf(c)[i], updatingItems')
              /\ c.op \in RefreshOps =>
                     \A i \in 1..Len(entitiesOf(c)) :
                         ~has(entitiesOf(c)[i], refreshingItems')]_vars

\* The request of a create has emitted null while the collection holds
\* items: nothing was invoked and the service is no longer creating.
C32_Witness ==
    /\ last.op = "create" /\ last.outcome = "ignored"
    /\ last.cbs = <<>> /\ last.evs = <<>>
    /\ Len(items) > 0
    /\ ~isCreating

\* ---------------------------------------------------------------- no decrement asked for
\* C33 -- decrementTotalCount absent or false: a successful delete or
\* deleteMany without readRequest leaves totalCountFetched exactly as it
\* was, whatever the response and however many entities were removed.
C33_NoDecrementUnlessAsked ==
    [][\A c \in InFlight :
          (/\ c.op \in {"delete", "deleteMany"} /\ ~c.readRequest
           /\ c.decrementTotalCount \in {DecrAbsent, DecrBoolean(FALSE)}
           /\ last'.op = c.op /\ last'.outcome = "committed") =>
              totalCountFetched' = totalCountFetched]_vars

====
